---------------------------- MODULE Spec2Model ----------------------------
(***************************************************************************)
(* The subgraph-matching join kernels of gunrock (src/gunrock/util/join.cuh) *)
(* as a state machine: every GPU thread is a process with its own program  *)
(* counter and locals, device memory is shared state, and each access to   *)
(* shared memory that another thread may write is a step of its own.       *)
(***************************************************************************)
EXTENDS Integers, Sequences, FiniteSets, TLC

VARIABLES
    edges_data,    \* number of data edges (kernel argument)
    edges_query,   \* number of query edges (kernel argument)
    froms, tos,    \* data-graph endpoints of every data edge
    intersect,     \* adjacency rule table, two entries per query-edge pair
    pos,           \* segment offset table
    indices,       \* candidate array (Update: indices, Join: edges)
    tagged,        \* the candidate array as handed to Update (never written)
    counts,        \* counts[0], the global match counter
    output,        \* output match buffer
    gridDim,       \* launch configuration
    blockDim,
    strictBarrier, \* what __syncthreads does once a thread of the block has exited
    froms_query,   \* Label: query-graph endpoints of every query edge
    tos_query,
    d_c_set,       \* node-candidacy bitmask, one entry per data node (device)
    d_query_row,   \* d_query_row[0], Label's loop bound
    label0,        \* the label array as handed to Label (never written)
    label,         \* per-query-edge label array
    pc,            \* per thread: position in the kernel
    x,             \* per thread: local x
    size,          \* per thread: local size
    edge_id,       \* per thread: local edge_id[3]
    cand,          \* per thread: candidate positions of the decoded tuple
    iter,          \* per thread: local iter of the output loop (Label: i)
    slot,          \* per thread: the value last read from counts[0]
    boundary,      \* per thread: outcome of Update's boundary test
    visits,        \* history: the threads that ran a loop body, per index x
    hpc,           \* SMProblem: position of the host thread
    step,          \* SMProblem::Init: the next step
    outcomes,      \* SMProblem::Init: the status of every step performed
    retval,        \* SMProblem: the status returned by the last method
    num_gpus,      \* SMProblem::num_gpus
    num_matches,   \* SMProblem::num_matches
    h_c_set        \* the caller's host buffer handed to Extract

inputs == <<edges_data, edges_query, froms, tos, intersect, tagged,
            gridDim, blockDim, strictBarrier,
            froms_query, tos_query, d_c_set, d_query_row, label0>>

host == <<hpc, step, outcomes, retval, num_gpus, num_matches, h_c_set>>

vars == <<inputs, pos, indices, counts, output, label,
          pc, x, size, edge_id, cand, iter, slot, boundary, visits, host>>

-----------------------------------------------------------------------------
(* Bounds of the model *)

MaxWorkers == 3      \* Join is launched with 1..MaxWorkers threads
MaxSeg == 2          \* longest candidate segment of the shaped Join inputs
MaxThreads == 4      \* Update is launched with up to MaxThreads threads in all
MaxLen == 3          \* longest candidate array handed to Update
MaxGpus == 2         \* SMProblem::Init is called with num_gpus in 1..MaxGpus
SizeBits == 8        \* bits of Join's `size` (unsigned long long), scaled down

(* Program constants *)

EdgeIdLen == 3       \* unsigned long long edge_id[3]

NoValue == 0 - 1     \* stands for the content of an output cell nobody has written

-----------------------------------------------------------------------------
(* Helpers: C arrays are functions on 0..n-1 *)

Arr(s) == [i \in 0..(Len(s) - 1) |-> s[i + 1]]

RECURSIVE Concat(_, _)
Concat(ss, n) == IF n = 0 THEN <<>> ELSE Concat(ss, n - 1) \o ss[n]

RECURSIVE SortedSeq(_)
SortedSeq(S) ==
    IF S = {} THEN <<>>
    ELSE LET m == CHOOSE a \in S : \A b \in S : a <= b
         IN <<m>> \o SortedSeq(S \ {m})

RECURSIVE Pow2(_)
Pow2(n) == IF n = 0 THEN 1 ELSE 2 * Pow2(n - 1)

Threads == 0..(gridDim * blockDim - 1)

STRIDE == gridDim * blockDim

AllDone == \A w \in Threads : pc[w] = "done"

(* the thread with blockIdx.x = w \div blockDim and threadIdx.x = w % blockDim *)
(* starts at x = blockIdx.x * blockDim.x + threadIdx.x (lines 27, 84, 168);   *)
(* the variant leaves the block's offset out                                  *)
GlobalIdThreadOnly(w) == w % blockDim

GlobalId(w) == (w \div blockDim) * blockDim + (w % blockDim)

(* history of the loop bodies run: v with thread w's pass over index k added *)
Visited(v, k, w) ==
    [j \in DOMAIN v \cup {k} |->
        IF j = k THEN (IF k \in DOMAIN v THEN Append(v[k], w) ELSE <<w>>)
        ELSE v[j]]

NoVisits == [k \in {} |-> <<>>]

(* the state of the kernels and of the host object that a run does not use *)
LabelIdle ==
    /\ froms_query = <<>> /\ tos_query = <<>> /\ d_c_set = <<>>
    /\ d_query_row = 0 /\ label0 = <<>> /\ label = <<>>

HostIdle ==
    /\ hpc = "idle" /\ step = 0 /\ outcomes = <<>> /\ retval = "none"
    /\ num_gpus = 1 /\ num_matches = 0 /\ h_c_set = <<>>

-----------------------------------------------------------------------------
(* Join kernel, join.cuh lines 63-152 *)

edges == indices     \* Join's parameter `edges` is the candidate array

(* `size` is an unsigned long long: its arithmetic is modulo 2^SizeBits *)
Modulus == Pow2(SizeBits)

(* variant of line 77 whose loop stops one factor early *)
RECURSIVE SizeLoopShort(_, _)
SizeLoopShort(i, acc) ==
    IF i < edges_query - 2
    THEN SizeLoopShort(i + 1, (acc * (pos[i + 1] - pos[i])) % Modulus)
    ELSE acc

(* lines 76-78: size = pos[0]; for i in 0..edges_query-2: size *= pos[i+1]-pos[i] *)
RECURSIVE SizeLoop(_, _)
SizeLoop(i, acc) ==
    IF i < edges_query - 1
    THEN SizeLoop(i + 1, (acc * (pos[i + 1] - pos[i])) % Modulus)
    ELSE acc

JoinSize == SizeLoop(0, pos[0] % Modulus)

(* variant of line 90 that counts the position from the segment's end *)
DecodeStepFromEnd(it, id, p) ==
    [p EXCEPT ![it] = pos[it] - 1 - (id % (pos[it] - pos[it - 1]))]

(* lines 87-94: the mixed-radix decode.  p holds the candidate positions   *)
(* (edge_id[iter] between line 90 and line 92, id at line 94).             *)
DecodeStep(it, id, p) ==
    [p EXCEPT ![it] = pos[it - 1] + (id % (pos[it] - pos[it - 1]))]

RECURSIVE DecodeLoop(_, _, _)
DecodeLoop(it, id, p) ==
    IF it > 0
    THEN DecodeLoop(it - 1, id \div (pos[it] - pos[it - 1]), DecodeStep(it, id, p))
    ELSE [p EXCEPT ![0] = id]

Decode(xx, p) == DecodeLoop(edges_query - 1, xx, p)

(* lines 92 and 94: edge_id[iter] = edges[...] for the edges_query entries *)
Lookup(p, eid) ==
    [i \in DOMAIN eid |-> IF i < edges_query THEN edges[p[i]] ELSE eid[i]]

(* variant without the test of line 102 *)
SameEdgeBad(eid, it, e) == FALSE

(* line 102: two edges of one combination have the same id *)
SameEdge(eid, it, e) == eid[it + 1] = eid[e]

(* variant without the equality tests of lines 108-113 *)
SrcFailsNoEq(c, eid, it, e) ==
    c = 0 /\ (\/ froms[eid[it + 1]] = froms[eid[e]]
              \/ froms[eid[it + 1]] = tos[eid[e]])

(* variant without the second comparison of line 118 *)
SrcFailsNoDisjoint(c, eid, it, e) ==
    IF c # 0
    THEN IF c % 2 = 1
         THEN froms[eid[e]] # froms[eid[it + 1]]
         ELSE tos[eid[e]] # froms[eid[it + 1]]
    ELSE froms[eid[it + 1]] = froms[eid[e]]

(* lines 104, 106-119: the check of the new edge's source *)
SrcFails(c, eid, it, e) ==
    IF c # 0
    THEN IF c % 2 = 1
         THEN froms[eid[e]] # froms[eid[it + 1]]
         ELSE tos[eid[e]] # froms[eid[it + 1]]
    ELSE \/ froms[eid[it + 1]] = froms[eid[e]]
         \/ froms[eid[it + 1]] = tos[eid[e]]

(* lines 105, 121-134: the check of the new edge's destination *)
DstFails(d, eid, it, e) ==
    IF d # 0
    THEN IF d % 2 = 1
         THEN froms[eid[e]] # tos[eid[it + 1]]
         ELSE tos[eid[e]] # tos[eid[it + 1]]
    ELSE \/ tos[eid[it + 1]] = froms[eid[e]]
         \/ tos[eid[it + 1]] = tos[eid[e]]

(* lines 98, 102-134: one pass of the inner loop's body breaks *)
PairFails(eid, it, e) ==
    LET offset == (it * (it + 1)) \div 2
        c == intersect[(offset + e) * 2]
        d == intersect[(offset + e) * 2 + 1]
    IN  \/ SameEdge(eid, it, e)
        \/ SrcFails(c, eid, it, e)
        \/ DstFails(d, eid, it, e)

(* lines 100-136: the value of `edge` when the inner loop is left *)
RECURSIVE InnerLoop(_, _, _)
InnerLoop(eid, it, e) ==
    IF e < it + 1
    THEN IF PairFails(eid, it, e) THEN e ELSE InnerLoop(eid, it, e + 1)
    ELSE e

(* lines 96-140: the value of `iter` when the outer loop is left *)
RECURSIVE OuterLoop(_, _)
OuterLoop(eid, it) ==
    IF it < edges_query - 1
    THEN IF InnerLoop(eid, it, 0) # it + 1 THEN it ELSE OuterLoop(eid, it + 1)
    ELSE it

(* line 141 *)
JoinSucceeds(eid) == OuterLoop(eid, 0) = edges_query - 1

(* variant of line 145 without "+ iter" *)
OutputIndexBad(c, it) == c * edges_query

(* variant of line 145 that fills a block from its end *)
OutputIndexReversed(c, it) == c * edges_query + (edges_query - 1 - it)

(* variant of line 145 that takes the counter as already incremented *)
OutputIndexNextBlock(c, it) == (c + 1) * edges_query + it

(* line 145: the cell written for entry `it` of the match *)
OutputIndex(c, it) == c * edges_query + it

(* lines 90 and 93: a divisor of the decode, pos[iter] - pos[iter-1] for    *)
(* iter = edges_query-1 .. 1, is zero                                       *)
ZeroDivisor == \E i \in 1..(edges_query - 1) : pos[i] - pos[i - 1] = 0

(* lines 85-141 for the thread's current x: leave the loop, or decode and   *)
(* validate the tuple (only the thread's locals and read-only inputs).  A   *)
(* decode that divides by zero leaves the thread's behaviour undefined.     *)
JoinLoop(w) ==
    IF x[w] < size[w]
    THEN IF ZeroDivisor
         THEN /\ visits' = Visited(visits, x[w], w)
              /\ pc' = [pc EXCEPT ![w] = "j_undefined"]
              /\ UNCHANGED <<cand, edge_id, iter, x>>
         ELSE
         LET p == Decode(x[w], cand[w])
             eid == Lookup(p, edge_id[w])
         IN  /\ visits' = Visited(visits, x[w], w)
             /\ cand' = [cand EXCEPT ![w] = p]
             /\ edge_id' = [edge_id EXCEPT ![w] = eid]
             /\ IF JoinSucceeds(eid)
                THEN /\ pc' = [pc EXCEPT ![w] = "j_read"]
                     /\ iter' = [iter EXCEPT ![w] = 0]
                     /\ x' = x
                ELSE /\ pc' = [pc EXCEPT ![w] = "j_loop"]
                     /\ x' = [x EXCEPT ![w] = x[w] + STRIDE]     \* line 149
                     /\ iter' = iter
    ELSE /\ pc' = [pc EXCEPT ![w] = "done"]
         /\ UNCHANGED <<cand, edge_id, iter, x, visits>>

(* lines 76-84: kernel entry *)
JoinEnter(w) ==
    /\ pc[w] = "j_start"
    /\ size' = [size EXCEPT ![w] = JoinSize]
    /\ x' = [x EXCEPT ![w] = GlobalId(w)]
    /\ pc' = [pc EXCEPT ![w] = "j_loop"]
    /\ UNCHANGED <<inputs, host, label, visits, pos, indices, counts, output, edge_id, cand, iter,
                   slot, boundary>>

JoinIterate(w) ==
    /\ pc[w] = "j_loop"
    /\ JoinLoop(w)
    /\ UNCHANGED <<inputs, host, label, pos, indices, counts, output, size, slot, boundary>>

(* line 145, the read of counts[0] (or the loop's exit, line 144) *)
JoinReadCount(w) ==
    /\ pc[w] = "j_read"
    /\ IF iter[w] < edges_query
       THEN /\ slot' = [slot EXCEPT ![w] = counts]
            /\ pc' = [pc EXCEPT ![w] = "j_write"]
       ELSE /\ slot' = slot
            /\ pc' = [pc EXCEPT ![w] = "j_add"]
    /\ UNCHANGED <<inputs, host, label, visits, pos, indices, counts, output, x, size, edge_id, cand,
                   iter, boundary>>

(* line 145, the store into output *)
JoinWriteOutput(w) ==
    /\ pc[w] = "j_write"
    /\ output' = [output EXCEPT ![OutputIndex(slot[w], iter[w])] = edge_id[w][iter[w]]]
    /\ iter' = [iter EXCEPT ![w] = iter[w] + 1]
    /\ pc' = [pc EXCEPT ![w] = "j_read"]
    /\ UNCHANGED <<inputs, host, label, visits, pos, indices, counts, x, size, edge_id, cand, slot,
                   boundary>>

(* variant of line 147: a plain counts[0] = <value read at line 145> + 1 *)
LostUpdateAdd(w) == slot[w] + 1

(* lines 147 and 149: atomicAdd(counts, 1); x += STRIDE *)
AtomicAdd(w) == counts + 1

JoinAtomicAdd(w) ==
    /\ pc[w] = "j_add"
    /\ counts' = AtomicAdd(w)
    /\ x' = [x EXCEPT ![w] = x[w] + STRIDE]
    /\ pc' = [pc EXCEPT ![w] = "j_loop"]
    /\ UNCHANGED <<inputs, host, label, visits, pos, indices, output, size, edge_id, cand, iter, slot,
                   boundary>>

JoinNext ==
    \/ \E w \in Threads : JoinEnter(w)
    \/ \E w \in Threads : JoinIterate(w)
    \/ \E w \in Threads : JoinReadCount(w)
    \/ \E w \in Threads : JoinWriteOutput(w)
    \/ \E w \in Threads : JoinAtomicAdd(w)

-----------------------------------------------------------------------------
(* The inputs Join is launched on *)

(* data graphs: A=0, B=1, C=2, D=3 *)
GraphFan == [froms |-> <<0, 0, 2>>, tos |-> <<1, 2, 1>>]            \* A->B, A->C, C->B
GraphTriangle == [froms |-> <<0, 1, 2, 3>>, tos |-> <<1, 2, 0, 0>>] \* A->B, B->C, C->A, D->A

(* a rule entry: 0 (no shared query vertex), odd (the earlier edge's source) *)
(* or even (the earlier edge's destination)                                  *)
RuleValues == {0, 1, 2}

RuleTables(q) == [0..(q * (q - 1) - 1) -> RuleValues]

(* the rule table of the query 0->1, 1->2, 2->0: pairs (0,1), (0,2), (1,2) *)
TriangleRules == <<2, 0, 0, 1, 2, 0>>

(* n candidates of a query edge, ascending, starting with data edge i *)
Window(g, i, n) == SortedSeq({(i + k) % Len(g.froms) : k \in 0..(n - 1)})

(* every rule table of a query of up to qmax edges against every combination *)
(* of the data edges of graph g (every data edge a candidate of every query  *)
(* edge)                                                                      *)
RuleInputs(g, qmax) ==
    UNION {{[graph |-> g, eq |-> q, rules |-> r,
             segs |-> [i \in 1..q |-> Window(g, 0, Len(g.froms))]]
            : r \in RuleTables(q)}
           : q \in 1..qmax}

(* the triangle query and its prefixes on graph g, every segment shape: the *)
(* candidates of query edge i are 0..MaxSeg data edges from edge i on       *)
ShapeInputs(g) ==
    UNION {{[graph |-> g, eq |-> q,
             rules |-> Arr(SubSeq(TriangleRules, 1, q * (q - 1))),
             segs |-> [i \in 1..q |-> Window(g, i - 1, lens[i])]]
            : lens \in [1..q -> 0..MaxSeg]}
           : q \in 1..EdgeIdLen}

RECURSIVE Prod(_, _)
Prod(s, n) == IF n = 0 THEN 1 ELSE Len(s[n]) * Prod(s, n - 1)

(* the caller's output buffer holds a block for every tuple of the          *)
(* combination space, and one block at least                                *)
Capacity(in) ==
    (IF Prod(in.segs, in.eq) = 0 THEN 1 ELSE Prod(in.segs, in.eq)) * in.eq

JoinLaunch(Inputs, Workers) ==
    \E in \in Inputs, W \in Workers :
        /\ edges_data = Len(in.graph.froms)
        /\ edges_query = in.eq
        /\ froms = Arr(in.graph.froms)
        /\ tos = Arr(in.graph.tos)
        /\ intersect = in.rules
        /\ pos = [i \in 0..(in.eq - 1) |-> Len(Concat(in.segs, i + 1))]
        /\ indices = Arr(Concat(in.segs, in.eq))
        /\ tagged = <<>>
        /\ counts = 0
        /\ output = [k \in 0..(Capacity(in) - 1) |-> NoValue]
        /\ gridDim = W
        /\ blockDim = 1
        /\ strictBarrier = FALSE
        /\ pc = [w \in 0..(W - 1) |-> "j_start"]
        /\ x = [w \in 0..(W - 1) |-> 0]
        /\ size = [w \in 0..(W - 1) |-> 0]
        /\ edge_id = [w \in 0..(W - 1) |-> [i \in 0..(EdgeIdLen - 1) |-> 0]]
        /\ cand = [w \in 0..(W - 1) |-> [i \in 0..(EdgeIdLen - 1) |-> 0]]
        /\ iter = [w \in 0..(W - 1) |-> 0]
        /\ slot = [w \in 0..(W - 1) |-> 0]
        /\ boundary = [w \in 0..(W - 1) |-> FALSE]
        /\ visits = NoVisits
        /\ LabelIdle
        /\ HostIdle

(* Join on the shaped inputs and on the rule tables of the queries of up to *)
(* two edges, with 1..MaxWorkers threads                                    *)
JoinInit ==
    JoinLaunch(ShapeInputs(GraphTriangle) \cup RuleInputs(GraphFan, 2),
               1..MaxWorkers)

SpecJoin == JoinInit /\ [][JoinNext]_vars

(* Join by one thread on every rule table of the queries of up to three     *)
(* edges: decode and validation of a tuple read only the thread's locals    *)
(* and inputs that no thread writes                                         *)
RulesInit == JoinLaunch(RuleInputs(GraphFan, EdgeIdLen) \cup RuleInputs(GraphTriangle, EdgeIdLen), {1})

SpecJoinRules == RulesInit /\ [][JoinNext]_vars

(* The computation of `size` alone (lines 76-84), on offset tables whose    *)
(* segments are empty, of one candidate, or as long as half of size's bits  *)
(* can count (and one more), with one or two threads                        *)
HalfRange == Pow2(SizeBits \div 2)

SizeLens == {0, 1, HalfRange, HalfRange + 1}

RECURSIVE Offset(_, _)
Offset(lens, n) == IF n = 0 THEN 0 ELSE lens[n] + Offset(lens, n - 1)

SizeInit ==
    \E q \in 1..EdgeIdLen, W \in 1..2 :
    \E lens \in [1..q -> SizeLens] :
        /\ edges_data = Len(GraphTriangle.froms)
        /\ edges_query = q
        /\ froms = Arr(GraphTriangle.froms)
        /\ tos = Arr(GraphTriangle.tos)
        /\ intersect = Arr(SubSeq(TriangleRules, 1, q * (q - 1)))
        /\ pos = [i \in 0..(q - 1) |-> Offset(lens, i + 1)]
        /\ indices = [k \in 0..(Offset(lens, q) - 1) |-> k % Len(GraphTriangle.froms)]
        /\ tagged = <<>>
        /\ counts = 0
        /\ output = [k \in 0..(q - 1) |-> NoValue]
        /\ gridDim = W
        /\ blockDim = 1
        /\ strictBarrier = FALSE
        /\ pc = [w \in 0..(W - 1) |-> "j_start"]
        /\ x = [w \in 0..(W - 1) |-> 0]
        /\ size = [w \in 0..(W - 1) |-> 0]
        /\ edge_id = [w \in 0..(W - 1) |-> [i \in 0..(EdgeIdLen - 1) |-> 0]]
        /\ cand = [w \in 0..(W - 1) |-> [i \in 0..(EdgeIdLen - 1) |-> 0]]
        /\ iter = [w \in 0..(W - 1) |-> 0]
        /\ slot = [w \in 0..(W - 1) |-> 0]
        /\ boundary = [w \in 0..(W - 1) |-> FALSE]
        /\ visits = NoVisits
        /\ LabelIdle
        /\ HostIdle

JoinSizeNext == \E w \in Threads : JoinEnter(w)

SpecJoinSize == SizeInit /\ [][JoinSizeNext]_vars

-----------------------------------------------------------------------------
(* Update kernel (segment compaction), join.cuh lines 20-39 *)

BlockOf(w) == w \div blockDim

(* variant of line 31 with != for < *)
BoundaryTestNeq(w) ==
    \/ x[w] = size[w] - 1
    \/ indices[x[w]] \div edges_data # indices[x[w] + 1] \div edges_data

(* line 31: is x the last position of its query edge's run? *)
BoundaryTest(w) ==
    \/ x[w] = size[w] - 1
    \/ indices[x[w]] \div edges_data < indices[x[w] + 1] \div edges_data

(* variant of line 33 that stores x *)
StoreBoundaryAtX(w) ==
    [pos EXCEPT ![indices[x[w]] \div edges_data] = x[w]]

(* line 33: pos[indices[x]/edges_data] = x+1 *)
StoreBoundary(w) ==
    [pos EXCEPT ![indices[x[w]] \div edges_data] = x[w] + 1]

(* line 36: indices[x] %= edges_data *)
StripTag(w) ==
    [indices EXCEPT ![x[w]] = indices[x[w]] % edges_data]

(* lines 26-29: kernel entry, with the read of pos[0] *)
UpdateEnter(w) ==
    /\ pc[w] = "u_start"
    /\ size' = [size EXCEPT ![w] = pos[0]]
    /\ x' = [x EXCEPT ![w] = GlobalId(w)]
    /\ pc' = [pc EXCEPT ![w] = IF GlobalId(w) < pos[0] THEN "u_test" ELSE "done"]
    /\ UNCHANGED <<inputs, host, label, visits, pos, indices, counts, output, edge_id, cand, iter,
                   slot, boundary>>

(* line 31: the reads of indices[x] and indices[x+1] *)
UpdateTest(w) ==
    /\ pc[w] = "u_test"
    /\ boundary' = [boundary EXCEPT ![w] = BoundaryTest(w)]
    /\ visits' = Visited(visits, x[w], w)
    /\ pc' = [pc EXCEPT ![w] = IF BoundaryTest(w) THEN "u_store" ELSE "u_sync"]
    /\ UNCHANGED <<inputs, host, label, pos, indices, counts, output, x, size, edge_id, cand,
                   iter, slot>>

(* line 33: the store into pos *)
UpdateStore(w) ==
    /\ pc[w] = "u_store"
    /\ pos' = StoreBoundary(w)
    /\ pc' = [pc EXCEPT ![w] = "u_sync"]
    /\ UNCHANGED <<inputs, host, label, visits, indices, counts, output, x, size, edge_id, cand,
                   iter, slot, boundary>>

(* line 35: __syncthreads() inside the loop.  The threads of block b that  *)
(* wait are released together once no thread of the block is still on its *)
(* way to the barrier; a thread of the block that has left the kernel      *)
(* never arrives, which the hardware either ignores or waits for forever   *)
(* (strictBarrier).                                                        *)
BarrierOpen(b) ==
    /\ \E w \in Threads : BlockOf(w) = b /\ pc[w] = "u_sync"
    /\ \A w \in Threads :
          BlockOf(w) = b =>
              \/ pc[w] = "u_sync"
              \/ pc[w] = "done" /\ ~strictBarrier

UpdateBarrier(b) ==
    /\ BarrierOpen(b)
    /\ pc' = [w \in Threads |->
                 IF BlockOf(w) = b /\ pc[w] = "u_sync" THEN "u_detag" ELSE pc[w]]
    /\ UNCHANGED <<inputs, host, label, visits, pos, indices, counts, output, x, size, edge_id, cand,
                   iter, slot, boundary>>

(* lines 36-37 and the loop test of line 29 *)
UpdateDetag(w) ==
    /\ pc[w] = "u_detag"
    /\ indices' = StripTag(w)
    /\ x' = [x EXCEPT ![w] = x[w] + STRIDE]
    /\ pc' = [pc EXCEPT ![w] = IF x[w] + STRIDE < size[w] THEN "u_test" ELSE "done"]
    /\ UNCHANGED <<inputs, host, label, visits, pos, counts, output, size, edge_id, cand, iter, slot,
                   boundary>>

UpdateNext ==
    \/ \E w \in Threads : UpdateEnter(w)
    \/ \E w \in Threads : UpdateTest(w)
    \/ \E w \in Threads : UpdateStore(w)
    \/ \E b \in 0..(gridDim - 1) : UpdateBarrier(b)
    \/ \E w \in Threads : UpdateDetag(w)

-----------------------------------------------------------------------------
(* The inputs Update is launched on *)

(* the candidate arrays: the query-edge tags of a sorted array of up to     *)
(* MaxLen entries, for a query of q edges                                   *)
TagLists(q) ==
    UNION {{t \in [1..n -> 0..(q - 1)] : \A i \in 1..(n - 1) : t[i] <= t[i + 1]}
           : n \in 0..MaxLen}

(* the k-th entry's data-edge id: its rank in its query edge's run, and one *)
(* more for the odd query edges, so that the ids of a run ascend            *)
IdAt(t, k) == Cardinality({j \in 1..(k - 1) : t[j] = t[k]}) + (t[k] % 2)

(* entry = query_edge_index * data_edge_count + data_edge_id *)
TaggedArray(t, ed) == [k \in 0..(Len(t) - 1) |-> t[k + 1] * ed + IdAt(t, k + 1)]

(* <<gridDim, blockDim>> *)
LaunchShapes ==
    {s \in (1..MaxThreads) \X (1..MaxThreads) : s[1] * s[2] <= MaxThreads}

UpdateInit ==
    \E q \in 1..EdgeIdLen, s \in LaunchShapes, strict \in BOOLEAN :
    \E t \in TagLists(q) :
    \E fill \in {0, Len(t)} :
        /\ edges_data = MaxLen + 1
        /\ edges_query = q
        /\ froms = <<>>
        /\ tos = <<>>
        /\ intersect = <<>>
        /\ tagged = TaggedArray(t, MaxLen + 1)
        /\ indices = TaggedArray(t, MaxLen + 1)
        /\ pos = [i \in 0..(q - 1) |-> IF i = 0 THEN Len(t) ELSE fill]
        /\ counts = 0
        /\ output = <<>>
        /\ gridDim = s[1]
        /\ blockDim = s[2]
        /\ strictBarrier = strict
        /\ pc = [w \in 0..(s[1] * s[2] - 1) |-> "u_start"]
        /\ x = [w \in 0..(s[1] * s[2] - 1) |-> 0]
        /\ size = [w \in 0..(s[1] * s[2] - 1) |-> 0]
        /\ edge_id = [w \in 0..(s[1] * s[2] - 1) |-> [i \in 0..(EdgeIdLen - 1) |-> 0]]
        /\ cand = [w \in 0..(s[1] * s[2] - 1) |-> [i \in 0..(EdgeIdLen - 1) |-> 0]]
        /\ iter = [w \in 0..(s[1] * s[2] - 1) |-> 0]
        /\ slot = [w \in 0..(s[1] * s[2] - 1) |-> 0]
        /\ boundary = [w \in 0..(s[1] * s[2] - 1) |-> FALSE]
        /\ visits = NoVisits
        /\ LabelIdle
        /\ HostIdle

SpecUpdate == UpdateInit /\ [][UpdateNext]_vars

(* the hardware runs every thread that can take a step: a launch never     *)
(* stops while some thread of it can still run                             *)
SpecUpdateFair == UpdateInit /\ [][UpdateNext]_vars /\ WF_vars(UpdateNext)

-----------------------------------------------------------------------------
(* Label kernel (candidate labeling), join.cuh lines 155-184.  froms and tos *)
(* are the kernel's froms_data and tos_data.                                 *)

(* (m >> b) % 2 *)
Bit(m, b) == (m \div Pow2(b)) % 2

(* lines 175-178: both endpoints of data edge xx are feasible for query edge i *)
Feasible(xx, i) ==
    /\ Bit(d_c_set[froms[xx]], froms_query[i]) = 1
    /\ Bit(d_c_set[tos[xx]], tos_query[i]) = 1

(* line 179: the entry of the pair (data edge xx, query edge i) *)
LabelIndex(xx, i) == xx + ((i * edges_data) \div 2)

(* variant of line 179 that stores the query edge's number *)
LabelStoreQueryEdge(w, lab) ==
    IF Feasible(x[w], iter[w])
    THEN [lab EXCEPT ![LabelIndex(x[w], iter[w])] = iter[w] + 1]
    ELSE lab

(* lines 177-179 for the thread's x and i *)
LabelStore(w, lab) ==
    IF Feasible(x[w], iter[w])
    THEN [lab EXCEPT ![LabelIndex(x[w], iter[w])] = 1]
    ELSE lab

(* lines 167-170: kernel entry, size = d_query_row[0] *)
LabelEnter(w) ==
    /\ pc[w] = "l_start"
    /\ size' = [size EXCEPT ![w] = d_query_row]
    /\ x' = [x EXCEPT ![w] = GlobalId(w)]
    /\ iter' = [iter EXCEPT ![w] = 0]
    /\ pc' = [pc EXCEPT ![w] = IF GlobalId(w) < d_query_row THEN "l_loop" ELSE "done"]
    /\ UNCHANGED <<inputs, host, label, visits, pos, indices, counts, output,
                   edge_id, cand, slot, boundary>>

(* lines 173-182: one pass of the for loop's body; after the last query     *)
(* edge, x += STRIDE and the while test of line 170                         *)
LabelIterate(w) ==
    /\ pc[w] = "l_loop"
    /\ label' = LabelStore(w, label)
    /\ IF iter[w] + 1 < edges_query
       THEN /\ iter' = [iter EXCEPT ![w] = iter[w] + 1]
            /\ UNCHANGED <<x, pc>>
       ELSE /\ iter' = [iter EXCEPT ![w] = 0]
            /\ x' = [x EXCEPT ![w] = x[w] + STRIDE]
            /\ pc' = [pc EXCEPT ![w] =
                         IF x[w] + STRIDE < size[w] THEN "l_loop" ELSE "done"]
    /\ visits' = IF iter[w] = 0 THEN Visited(visits, x[w], w) ELSE visits
    /\ UNCHANGED <<inputs, host, pos, indices, counts, output, size, edge_id,
                   cand, slot, boundary>>

LabelNext ==
    \/ \E w \in Threads : LabelEnter(w)
    \/ \E w \in Threads : LabelIterate(w)

(* The inputs Label is launched on *)

(* the query 0->1, 1->2, 2->0 *)
QueryTriangle == [froms |-> <<0, 1, 2>>, tos |-> <<1, 2, 0>>]

(* bitmasks over the data nodes A..D: every node feasible for every query   *)
(* node, node v feasible for query node v % 3 only, no node feasible, and a *)
(* mixed one                                                                *)
Bitmasks ==
    {[v \in 0..3 |-> 7], [v \in 0..3 |-> Pow2(v % 3)], [v \in 0..3 |-> 0],
     [v \in 0..3 |-> v + 3]}

LabelInit ==
    \E g \in {GraphFan, GraphTriangle}, q \in 1..EdgeIdLen, W \in 1..MaxWorkers,
       m \in Bitmasks, stale \in BOOLEAN :
    \E bound \in {0, Len(g.froms)} :
        /\ edges_data = Len(g.froms)
        /\ edges_query = q
        /\ froms = Arr(g.froms)
        /\ tos = Arr(g.tos)
        /\ froms_query = Arr(SubSeq(QueryTriangle.froms, 1, q))
        /\ tos_query = Arr(SubSeq(QueryTriangle.tos, 1, q))
        /\ d_c_set = m
        /\ d_query_row = bound
        /\ label0 = [k \in 0..(Len(g.froms) * q - 1) |-> IF stale THEN k % 2 ELSE 0]
        /\ label = label0
        /\ intersect = <<>> /\ pos = <<>> /\ indices = <<>> /\ tagged = <<>>
        /\ counts = 0 /\ output = <<>>
        /\ gridDim = W
        /\ blockDim = 1
        /\ strictBarrier = FALSE
        /\ pc = [w \in 0..(W - 1) |-> "l_start"]
        /\ x = [w \in 0..(W - 1) |-> 0]
        /\ size = [w \in 0..(W - 1) |-> 0]
        /\ edge_id = [w \in 0..(W - 1) |-> [i \in 0..(EdgeIdLen - 1) |-> 0]]
        /\ cand = [w \in 0..(W - 1) |-> [i \in 0..(EdgeIdLen - 1) |-> 0]]
        /\ iter = [w \in 0..(W - 1) |-> 0]
        /\ slot = [w \in 0..(W - 1) |-> 0]
        /\ boundary = [w \in 0..(W - 1) |-> FALSE]
        /\ visits = NoVisits
        /\ HostIdle

SpecLabel == LabelInit /\ [][LabelNext]_vars

-----------------------------------------------------------------------------
(* SMProblem::Init and SMProblem::Extract, sm_problem.cuh lines 207-448 *)

(* everything the host methods leave alone, but for the device bitmask *)
kernel == <<edges_data, edges_query, froms, tos, intersect, tagged, gridDim,
            blockDim, strictBarrier, froms_query, tos_query, d_query_row,
            label0, pos, indices, counts, output, label, pc, x, size, edge_id,
            cand, iter, slot, boundary, visits>>

(* The steps of Init in program order, each with what the code does with   *)
(* the step's status:                                                      *)
(*   "return"   if (retval = step) return retval;                          *)
(*   "break"    if (retval = step) break;        (leaves the do-while)     *)
(*   "ignore"   the call's result is discarded (ProblemBase::Init, lines   *)
(*              255 and 269; DataSlice::Init, lines 316 and 325)           *)
(*   "launch"   a kernel launch, whose failure only cudaGetLastError would *)
(*              report and the code never asks (lines 365-413)             *)
InitSteps ==
    <<"ignore", "ignore",                        \* 255, 269 ProblemBase::Init
      "break",                                   \* 302 cudaGetDevice
      "return",                                  \* 309 cudaMalloc
      "ignore", "ignore",                        \* 316, 325 DataSlice::Init
      "return", "return", "return", "return",    \* 336-342 Allocate
      "return", "return", "return", "return",    \* 344-350 Allocate
      "return", "return", "return", "return",    \* 352-358 Allocate
      "return",                                  \* 360 Allocate
      "launch",                                  \* 365 MemsetKernel
      "return", "return", "return",              \* 371, 376, 381 Move
      "launch", "launch",                        \* 385, 389 MemsetIdxKernel
      "return", "return",                        \* 394, 399 Move
      "launch", "launch", "launch",              \* 403, 408, 413 MemsetKernel
      "return", "return">>                       \* 421, 428 Move

(* lines 297 and 444: only num_gpus <= 1 has steps after ProblemBase::Init *)
LastStep == IF num_gpus <= 1 THEN Len(InitSteps) ELSE 2

(* does the code look at the step's status? *)
Checked(kind) == kind \in {"return", "break"}

(* one step of Init, which the device or the runtime lets succeed or fail *)
InitStep ==
    /\ hpc = "init"
    /\ step <= LastStep
    /\ \E ok \in BOOLEAN :
          /\ outcomes' = Append(outcomes, ok)
          /\ IF ~ok /\ Checked(InitSteps[step])
             THEN /\ retval' = "cudaError"          \* return retval (313, 337, ...)
                  /\ hpc' = "init_returned"         \* or break, then line 447
                  /\ step' = step
             ELSE /\ step' = step + 1
                  /\ UNCHANGED <<retval, hpc>>
    /\ UNCHANGED <<kernel, d_c_set, num_gpus, num_matches, h_c_set>>

(* lines 432-447: the end of the do-while, return retval *)
InitReturn ==
    /\ hpc = "init"
    /\ step > LastStep
    /\ hpc' = "init_returned"
    /\ UNCHANGED <<kernel, d_c_set, step, outcomes, retval, num_gpus,
                   num_matches, h_c_set>>

(* Extract is called after a successful Init, once the pipeline has left   *)
(* its bitmask on the device; line 208, retval = cudaSuccess, and the test *)
(* of line 212                                                             *)
ExtractCall ==
    /\ hpc = "init_returned"
    /\ retval = "cudaSuccess"
    /\ \E m \in Bitmasks : d_c_set' = m
    /\ hpc' = IF num_gpus = 1 THEN "x_setdevice" ELSE "x_return"
    /\ UNCHANGED <<kernel, step, outcomes, retval, num_gpus, num_matches, h_c_set>>

(* line 213 *)
ExtractSetDevice ==
    /\ hpc = "x_setdevice"
    /\ \E ok \in BOOLEAN :
          IF ok THEN /\ hpc' = "x_move"
                     /\ retval' = retval
                ELSE /\ hpc' = "extract_returned"
                     /\ retval' = "cudaError"
    /\ UNCHANGED <<kernel, d_c_set, step, outcomes, num_gpus, num_matches, h_c_set>>

(* lines 214-219: the device-to-host transfer into the caller's buffer *)
ExtractMove ==
    /\ hpc = "x_move"
    /\ \E ok \in BOOLEAN :
          IF ok THEN /\ h_c_set' = d_c_set
                     /\ num_matches' = 0
                     /\ hpc' = "x_return"
                     /\ retval' = retval
                ELSE /\ hpc' = "extract_returned"
                     /\ retval' = "cudaError"
                     /\ UNCHANGED <<h_c_set, num_matches>>
    /\ UNCHANGED <<kernel, d_c_set, step, outcomes, num_gpus>>

(* lines 222-227: the (empty) else branch and return retval *)
ExtractReturn ==
    /\ hpc = "x_return"
    /\ hpc' = "extract_returned"
    /\ UNCHANGED <<kernel, d_c_set, step, outcomes, retval, num_gpus,
                   num_matches, h_c_set>>

ProblemNext ==
    \/ InitStep
    \/ InitReturn
    \/ ExtractCall
    \/ ExtractSetDevice
    \/ ExtractMove
    \/ ExtractReturn

(* no kernel is running *)
KernelIdle ==
    /\ edges_data = 0 /\ edges_query = 0 /\ froms = <<>> /\ tos = <<>>
    /\ intersect = <<>> /\ pos = <<>> /\ indices = <<>> /\ tagged = <<>>
    /\ counts = 0 /\ output = <<>> /\ gridDim = 1 /\ blockDim = 1
    /\ strictBarrier = FALSE
    /\ froms_query = <<>> /\ tos_query = <<>> /\ d_query_row = 0
    /\ label0 = <<>> /\ label = <<>>
    /\ pc = [w \in {0} |-> "done"]
    /\ x = [w \in {0} |-> 0]
    /\ size = [w \in {0} |-> 0]
    /\ edge_id = [w \in {0} |-> [i \in 0..(EdgeIdLen - 1) |-> 0]]
    /\ cand = [w \in {0} |-> [i \in 0..(EdgeIdLen - 1) |-> 0]]
    /\ iter = [w \in {0} |-> 0]
    /\ slot = [w \in {0} |-> 0]
    /\ boundary = [w \in {0} |-> FALSE]
    /\ visits = NoVisits

(* Init is entered on a default-constructed object (line 139); line 286,  *)
(* retval = cudaSuccess                                                   *)
ProblemInit ==
    \E n \in 1..MaxGpus :
        /\ KernelIdle
        /\ d_c_set = [v \in 0..3 |-> 0]
        /\ hpc = "init"
        /\ step = 1
        /\ outcomes = <<>>
        /\ retval = "cudaSuccess"
        /\ num_gpus = n
        /\ num_matches = 0
        /\ h_c_set = [v \in 0..3 |-> 0]

SpecProblem == ProblemInit /\ [][ProblemNext]_vars

-----------------------------------------------------------------------------
(* Either kernel, on any of its inputs *)

Init == JoinInit \/ RulesInit \/ UpdateInit \/ LabelInit \/ ProblemInit

Next == JoinNext \/ UpdateNext \/ LabelNext \/ ProblemNext

Spec == Init /\ [][Next]_vars

-----------------------------------------------------------------------------
(* What the claims about Join speak of, stated without the kernel's loops *)

SegStart(i) == IF i = 0 THEN 0 ELSE pos[i - 1]

SegLen(i) == pos[i] - SegStart(i)

(* the product of the segment lengths of the query edges i, i+1, ... *)
RECURSIVE SpaceFrom(_)
SpaceFrom(i) == IF i >= edges_query THEN 1 ELSE SegLen(i) * SpaceFrom(i + 1)

SpaceSize == SpaceFrom(0)

(* the data-edge ids of the tuple with index xx *)
TupleOf(xx) ==
    [i \in 0..(edges_query - 1) |->
        edges[SegStart(i) + ((xx \div SpaceFrom(i + 1)) % SegLen(i))]]

RuleSrc(e, f) == intersect[((f * (f - 1)) \div 2 + e) * 2]

RuleDst(e, f) == intersect[((f * (f - 1)) \div 2 + e) * 2 + 1]

(* the endpoint of data edge a that a non-zero rule entry r names *)
Named(r, a) == IF r % 2 = 1 THEN froms[a] ELSE tos[a]

EqualityRulesHold(t) ==
    \A f \in 0..(edges_query - 1) : \A e \in 0..(f - 1) :
        /\ RuleSrc(e, f) # 0 => froms[t[f]] = Named(RuleSrc(e, f), t[e])
        /\ RuleDst(e, f) # 0 => tos[t[f]] = Named(RuleDst(e, f), t[e])

DisjointRulesHold(t) ==
    \A f \in 0..(edges_query - 1) : \A e \in 0..(f - 1) :
        /\ RuleSrc(e, f) = 0 => froms[t[f]] \notin {froms[t[e]], tos[t[e]]}
        /\ RuleDst(e, f) = 0 => tos[t[f]] \notin {froms[t[e]], tos[t[e]]}

PairwiseDistinct(t) ==
    \A f \in 0..(edges_query - 1) : \A e \in 0..(f - 1) : t[e] # t[f]

ValidTuple(t) == PairwiseDistinct(t) /\ EqualityRulesHold(t) /\ DisjointRulesHold(t)

ValidIndices == {xx \in 0..(SpaceSize - 1) : ValidTuple(TupleOf(xx))}

(* the tuple a thread holds between acceptance (line 141) and atomicAdd *)
Accepting(w) == pc[w] \in {"j_read", "j_write", "j_add"}

AcceptedTuple(w) == [i \in 0..(edges_query - 1) |-> edge_id[w][i]]

(* block k of the output buffer *)
Block(k) == [i \in 0..(edges_query - 1) |-> output[k * edges_query + i]]

-----------------------------------------------------------------------------
(* C1: once every worker has left Join's loop, counts[0] (0 at the launch)  *)
(* equals the number of tuple indices below the product of the segment      *)
(* lengths whose tuple passes every validation check, whatever the number   *)
(* of workers and the interleaving.                                         *)
C1_CountIsNumberOfValidTuples ==
    AllDone => counts = Cardinality(ValidIndices)

C1_Witness ==
    AllDone /\ gridDim = MaxWorkers /\ edges_query >= 2 /\ counts >= 2

(* C2: once Join is done with the counter at n, the output buffer is n     *)
(* blocks of edges_query entries and every accepted match has a block of   *)
(* its own that holds its data-edge ids in query-edge order: every block   *)
(* below n holds an accepted match, every accepted match is in a block     *)
(* below n, and no two blocks hold the same match.                         *)
C2_EveryMatchOwnsABlock ==
    AllDone =>
        /\ \A k \in 0..(counts - 1) : \E xx \in ValidIndices : Block(k) = TupleOf(xx)
        /\ \A xx \in ValidIndices : \E k \in 0..(counts - 1) : Block(k) = TupleOf(xx)
        /\ \A k, l \in 0..(counts - 1) : k # l => Block(k) # Block(l)

(* C3: a tuple that Join accepts satisfies every endpoint equality its     *)
(* rule entries require: for query edges e < f, a non-zero entry for f's   *)
(* source (destination) names e's source when odd and e's destination when *)
(* even, and the chosen data edges agree there.                            *)
C3_AcceptedTuplesKeepEqualityRules ==
    \A w \in Threads : Accepting(w) => EqualityRulesHold(AcceptedTuple(w))

C3_Witness ==
    \E w \in Threads :
        /\ Accepting(w) /\ edges_query = EdgeIdLen
        /\ RuleSrc(0, 1) = 1
        /\ froms[edge_id[w][0]] = froms[edge_id[w][1]]

(* C4: in a tuple that Join accepts, wherever the rule entry for an         *)
(* endpoint of f is 0 (no shared query vertex with e < f), that endpoint of *)
(* f's data edge is neither the source nor the destination of e's.          *)
C4_AcceptedTuplesKeepDisjointRules ==
    \A w \in Threads : Accepting(w) => DisjointRulesHold(AcceptedTuple(w))

C4_Witness ==
    \E w \in Threads :
        /\ Accepting(w) /\ edges_query >= 2
        /\ RuleSrc(0, 1) = 0 /\ RuleDst(0, 1) = 0

(* C5: the data-edge ids of a tuple that Join accepts are pairwise          *)
(* distinct, whatever the rule table.                                       *)
C5_AcceptedTuplesAreDistinct ==
    \A w \in Threads : Accepting(w) => PairwiseDistinct(AcceptedTuple(w))

C5_Witness ==
    \E w \in Threads :
        /\ Accepting(w) /\ edges_query = EdgeIdLen
        /\ RuleSrc(0, 1) = 1 /\ RuleDst(0, 1) = 0

(* C6: the positions decoded from a tuple index lie in their query edges'  *)
(* segments, and multiplying them back out by the segment lengths gives    *)
(* the index again.                                                        *)
RECURSIVE Encode(_, _)
Encode(p, i) ==
    IF i = 0 THEN p[0]
    ELSE Encode(p, i - 1) * SegLen(i) + (p[i] - SegStart(i))

(* the index a thread decoded last: x, which line 149 has advanced unless  *)
(* the tuple was accepted and atomicAdd is still ahead                     *)
LastDecoded(w) == IF Accepting(w) THEN x[w] ELSE x[w] - STRIDE

HasDecoded(w) == pc[w] # "j_start" /\ LastDecoded(w) >= 0

C6_DecodeRoundTrip ==
    \A w \in Threads :
        HasDecoded(w) =>
            /\ LastDecoded(w) < SpaceSize
            /\ \A i \in 0..(edges_query - 1) :
                   SegStart(i) <= cand[w][i] /\ cand[w][i] < pos[i]
            /\ Encode(cand[w], edges_query - 1) = LastDecoded(w)

C6_Witness ==
    \E w \in Threads :
        /\ HasDecoded(w) /\ edges_query = EdgeIdLen
        /\ pos[0] = 1 /\ pos[1] = 3 /\ pos[2] = 5
        /\ LastDecoded(w) = SpaceSize - 1
        /\ cand[w][1] = 2 /\ cand[w][2] = 4

(* C7: for a query of one edge, once Join is done the count is the segment *)
(* length pos[0] and every block below the count holds one candidate-edge  *)
(* id of candidate[0 .. pos[0]).                                           *)
C7_SingleEdgeQuery ==
    (AllDone /\ edges_query = 1) =>
        /\ counts = pos[0]
        /\ \A k \in 0..(counts - 1) :
               output[k] \in {edges[i] : i \in 0..(pos[0] - 1)}

(* C8: when exactly one tuple of the combination space is valid, Join      *)
(* ends with the count 1 and that tuple's data-edge ids in                 *)
(* output[0 .. edges_query), in query-edge order.                          *)
C8_SingleMatch ==
    (AllDone /\ Cardinality(ValidIndices) = 1) =>
        /\ counts = 1
        /\ \A xx \in ValidIndices : Block(0) = TupleOf(xx)

(* the triangle query on the triangle A->B, B->C, C->A with D->A, the last *)
(* two data edges both candidates of the query edge 2->0                   *)
C8_Witness ==
    /\ AllDone /\ gridDim >= 2
    /\ edges_data = 4 /\ edges_query = EdgeIdLen
    /\ intersect = Arr(TriangleRules)
    /\ pos[0] = 1 /\ pos[1] = 2 /\ pos[2] = 4
    /\ edges[2] = 2 /\ edges[3] = 3
    /\ counts = 1 /\ Block(0) = Arr(<<0, 1, 2>>)

-----------------------------------------------------------------------------
(* What the claims about Update speak of *)

OriginalTag(k) == tagged[k] \div edges_data

(* C9: once Update is done on an array sorted by query-edge tag, the        *)
(* entries in candidate[pos[i-1] .. pos[i]) are exactly those that carried  *)
(* tag i, for every query edge i, and pos is non-decreasing.                *)
C9_SegmentInvariant ==
    AllDone =>
        /\ \A i \in 0..(edges_query - 1) : \A k \in DOMAIN tagged :
               (SegStart(i) <= k /\ k < pos[i]) <=> OriginalTag(k) = i
        /\ \A i \in 1..(edges_query - 1) : pos[i - 1] <= pos[i]

(* C10: once Update is done, every entry of the candidate array below the  *)
(* length pos[0] held at the launch is its original value modulo           *)
(* edges_data.                                                             *)
C10_EveryEntryDetagged ==
    AllDone => \A k \in DOMAIN tagged : indices[k] = tagged[k] % edges_data

-----------------------------------------------------------------------------
(* What the claims about Label speak of *)

(* the pairs (data edge, query edge) whose two bitmask bits are set *)
FeasiblePairs(n) ==
    {pr \in (0..(n - 1)) \X (0..(edges_query - 1)) : Feasible(pr[1], pr[2])}

(* C11: once Label is done, the label entry of every pair of a data edge x *)
(* below edges_data and a query edge i whose two bitmask bits (bit         *)
(* froms_query[i] of x's source, bit tos_query[i] of x's destination) are  *)
(* set is 1.                                                               *)
C11_EveryFeasiblePairLabelled ==
    AllDone =>
        \A pr \in FeasiblePairs(edges_data) : label[LabelIndex(pr[1], pr[2])] = 1

(* C12: the label array Label leaves is a function of the graphs, the      *)
(* bitmask, the loop bound and the initial label array alone, the same for *)
(* every number of workers and every interleaving: the entries of the      *)
(* feasible pairs below the loop bound are 1 and the others are untouched. *)
LabelResult ==
    [k \in DOMAIN label0 |->
        IF \E pr \in FeasiblePairs(d_query_row) : LabelIndex(pr[1], pr[2]) = k
        THEN 1 ELSE label0[k]]

C12_LabelIsFunctionOfInputs == AllDone => label = LabelResult

(* two workers have stored into the same entry *)
C12_Witness ==
    /\ AllDone /\ gridDim = MaxWorkers /\ label # label0
    /\ \E pr, qr \in FeasiblePairs(d_query_row) :
          /\ pr[1] % STRIDE # qr[1] % STRIDE
          /\ LabelIndex(pr[1], pr[2]) = LabelIndex(qr[1], qr[2])

-----------------------------------------------------------------------------
-----------------------------------------------------------------------------
(* What the claims about SMProblem speak of *)

(* the steps of Init that allocate device memory or copy host data to the  *)
(* device and hand their status to Init                                    *)
AllocOrTransfer(k) == InitSteps[k] = "return"

(* C14: on the single-GPU path, when a device allocation or a              *)
(* host-to-device transfer fails, Init returns the failure at once, with   *)
(* no later step performed and no retry; and Init returns success only if  *)
(* every step it performed succeeded.                                      *)
C14_InitReportsEveryFailure ==
    (hpc = "init_returned" /\ num_gpus = 1) =>
        /\ \A k \in 1..Len(outcomes) :
               (AllocOrTransfer(k) /\ ~outcomes[k]) =>
                   retval = "cudaError" /\ Len(outcomes) = k
        /\ retval = "cudaSuccess" => \A k \in 1..Len(outcomes) : outcomes[k]

(* C15: for every num_gpus, Extract returns success only after the device  *)
(* bitmask has been copied into the caller's host buffer; when the device  *)
(* selection or the transfer fails it returns the failure and num_matches  *)
(* keeps its value (0 since construction).                                 *)
C15_ExtractCopiesTheBitmask ==
    hpc = "extract_returned" =>
        /\ retval = "cudaSuccess" => h_c_set = d_c_set
        /\ retval # "cudaSuccess" => num_matches = 0

-----------------------------------------------------------------------------
(* C16: in Join with W workers every tuple index below size is decoded and *)
(* validated exactly once, by the worker w with index = w, w+W, w+2W, ..., *)
(* and no index at or above size is ever decoded.                          *)
C16_EachIndexDecodedOnce ==
    /\ \A k \in DOMAIN visits : k < SpaceSize /\ visits[k] = <<k % STRIDE>>
    /\ AllDone => DOMAIN visits = 0..(SpaceSize - 1)

C16_Witness ==
    /\ AllDone /\ gridDim = MaxWorkers /\ SpaceSize > 2 * MaxWorkers
    /\ visits[MaxWorkers] = <<0>>

(* the length of the candidate array handed to Update *)
OriginalLength == Cardinality(DOMAIN tagged)

(* the exclusive upper bound of tag t's run in the array handed to Update *)
TrueBound(t) == Cardinality({k \in DOMAIN tagged : OriginalTag(k) <= t})

(* C17: every worker of Update uses as its loop bound the array length     *)
(* that pos[0] held at the launch, whenever it starts, and so the workers  *)
(* together visit every position below that length exactly once.           *)
C17_LoopBoundIsOriginalLength ==
    /\ \A w \in Threads : pc[w] # "u_start" => size[w] = OriginalLength
    /\ \A k \in DOMAIN visits : k < OriginalLength /\ visits[k] = <<k % STRIDE>>
    /\ AllDone => DOMAIN visits = 0..(OriginalLength - 1)

(* C18: Update run by a single worker on a tag-sorted array in which every *)
(* query edge has a candidate ends with pos[i] the exclusive upper bound   *)
(* of query edge i's run for every i, pos strictly increasing up to the    *)
(* original length, and every entry its original value modulo edges_data.  *)
C18_SingleWorkerUpdate ==
    (/\ AllDone /\ STRIDE = 1
     /\ \A i \in 0..(edges_query - 1) : \E k \in DOMAIN tagged : OriginalTag(k) = i)
    =>
        /\ \A i \in 0..(edges_query - 1) : pos[i] = TrueBound(i)
        /\ \A i \in 1..(edges_query - 1) : pos[i - 1] < pos[i]
        /\ pos[edges_query - 1] = OriginalLength
        /\ \A k \in DOMAIN tagged : indices[k] = tagged[k] % edges_data

C18_Witness ==
    /\ AllDone /\ STRIDE = 1 /\ edges_query = 2 /\ OriginalLength = MaxLen
    /\ pos[0] = 1 /\ pos[1] = MaxLen
    /\ OriginalTag(1) = 1

(* C19: under every interleaving, the value a worker of Update is about to *)
(* store into pos[t] is the exclusive upper bound of tag t's run in the    *)
(* original array, and t is the original tag of the worker's position: a   *)
(* race can keep a boundary from being written but never makes a wrong one. *)
C19_OnlyTrueBoundariesWritten ==
    \A w \in Threads :
        pc[w] = "u_store" =>
            /\ indices[x[w]] \div edges_data = OriginalTag(x[w])
            /\ x[w] + 1 = TrueBound(indices[x[w]] \div edges_data)

(* a boundary is stored after another block has stripped tags and pos[0]   *)
(* has been overwritten                                                    *)
C19_Witness ==
    \E w \in Threads :
        /\ pc[w] = "u_store" /\ gridDim >= 2
        /\ indices # tagged
        /\ pos[0] # OriginalLength
        /\ OriginalTag(x[w]) >= 1

(* C20: with the counter 0 at the launch, every store of Join into the     *)
(* output buffer goes to an index below V * edges_query, V the number of   *)
(* valid tuples of the combination space, under every interleaving.        *)
C20_OutputWritesInBounds ==
    \A w \in Threads :
        pc[w] = "j_write" =>
            OutputIndex(slot[w], iter[w]) < Cardinality(ValidIndices) * edges_query

(* two workers are about to store into the same block *)
C20_Witness ==
    \E w, v \in Threads :
        /\ w # v /\ pc[w] = "j_write" /\ pc[v] = "j_write"
        /\ slot[w] = slot[v] /\ x[w] # x[v]
        /\ edges_query >= 2 /\ iter[w] = 1

-----------------------------------------------------------------------------
(* some query edge has no candidate *)
EmptySegment == \E i \in 0..(edges_query - 1) : SegLen(i) = 0

(* C21: when some query edge's candidate segment is empty (pos            *)
(* non-decreasing), Join processes no tuple: no worker ever runs the loop  *)
(* body, so no modulo or division by a zero segment length is evaluated,   *)
(* and the counter and the output buffer stay as they were at the launch.  *)
C21_EmptySegmentMeansNoWork ==
    EmptySegment =>
        /\ visits = NoVisits
        /\ \A w \in Threads : pc[w] \in {"j_start", "j_loop", "done"}
        /\ counts = 0
        /\ \A k \in DOMAIN output : output[k] = NoValue

(* an empty segment after a non-empty one, every worker done *)
C21_Witness ==
    /\ AllDone /\ gridDim = MaxWorkers /\ edges_query = EdgeIdLen
    /\ pos[0] = MaxSeg /\ pos[1] = pos[0] /\ pos[2] > pos[1]

-----------------------------------------------------------------------------
(* C22: the loop bound `size` that Join computes is the exact product of   *)
(* the segment lengths pos[i] - pos[i-1] (pos[-1] = 0), for every          *)
(* non-decreasing offset table, the accumulation being fixed-width         *)
(* unsigned arithmetic; so Join enumerates as many tuples as the Cartesian *)
(* product has.                                                            *)
C22_SizeIsExactProduct ==
    \A w \in Threads : pc[w] # "j_start" => size[w] = SpaceSize

-----------------------------------------------------------------------------
(* the pairs (data edge, query edge) of Label's intended domain *)
AllPairs == (0..(edges_data - 1)) \X (0..(edges_query - 1))

(* C23: the entry x + floor(i * edges_data / 2) that Label uses for the    *)
(* pair (x, i) belongs to that pair alone among the pairs of a data edge   *)
(* below edges_data and a query edge below edges_query: no two pairs write *)
(* the same entry.                                                         *)
C23_LabelIndexIsInjective ==
    \A w \in Threads :
        pc[w] = "l_loop" =>
            \A pr \in AllPairs :
                pr # <<x[w], iter[w]>> =>
                    LabelIndex(pr[1], pr[2]) # LabelIndex(x[w], iter[w])

(* the k-th valid tuple index in ascending order, k = 0, 1, ... *)
KthValid(k) ==
    CHOOSE v \in ValidIndices : Cardinality({u \in ValidIndices : u < v}) = k

(* C24: after Join by a single worker with the counter 0 at the launch,    *)
(* block k of the output buffer, for every k below the final count, holds  *)
(* the k-th valid tuple in ascending tuple-index order, entry j being the  *)
(* data edge chosen for query edge j, and every valid tuple is in exactly  *)
(* one block.                                                              *)
C24_SingleWorkerOutputInOrder ==
    (AllDone /\ STRIDE = 1) =>
        /\ counts = Cardinality(ValidIndices)
        /\ \A k \in 0..(counts - 1) : Block(k) = TupleOf(KthValid(k))
        /\ \A xx \in ValidIndices :
               Cardinality({k \in 0..(counts - 1) : Block(k) = TupleOf(xx)}) = 1

(* several matches of a query of three edges, the first after a rejected   *)
(* tuple                                                                   *)
C24_Witness ==
    /\ AllDone /\ STRIDE = 1 /\ edges_query = EdgeIdLen
    /\ counts >= 2 /\ KthValid(0) > 0 /\ KthValid(1) > KthValid(0) + 1

=============================================================================
